---- MODULE Spec2Model ----
(***************************************************************************)
(* Model of the INMET fetch pipeline (src/fetch_inmet.py): link discovery, *)
(* archive retrieval, member extraction, CSV decoding, schema              *)
(* normalisation and the combiner.                                         *)
(*                                                                         *)
(* Text is modelled as a sequence of characters, so that the string        *)
(* operations of the code (upper, lower, startswith, endswith, "in",       *)
(* re.sub, re.search) are computed and not assumed.  An accented letter is *)
(* written as one character with an ASCII name: "A'" is A-acute, "C," is   *)
(* C-cedilla, "A~" is A-tilde, "deg" is the degree sign.                   *)
(***************************************************************************)
EXTENDS Integers, Sequences, FiniteSets, TLC

VARIABLES
    df, out, npc,                      \* normalize_columns: argument, result, position
    bytes_content, enc_i, attempts,    \* try_read_csv: argument, loop index, readings made
    decoded, dpc,                      \*   its result and position
    portal,                            \* which answers the remote portal may give
    years, yi, pc,                     \* main: the requested years, the loop index, position
    res, year_links, year_url, res_y,  \* download_and_extract_for_year: its locals
    zip_links, zi, members, out_dfs,
    gets,                              \* the URLs requested by the current call, in order
    entered,                           \* the years whose processing was started, in order
    all_dfs, df_all, file_written,     \* main: collected tables, combined table, output file
    log                                \* the messages printed

normVars == <<df, out, npc>>
decodeVars == <<bytes_content, enc_i, attempts, decoded, dpc>>
callVars == <<res, year_links, year_url, res_y, zip_links, zi, members, out_dfs, gets>>
mainVars == <<portal, years, yi, pc, entered, all_dfs, df_all, file_written, log>>
vars == <<normVars, decodeVars, callVars, mainVars>>

(***************************************************************************)
(* Bounds of the model.                                                    *)
(***************************************************************************)
MaxRows == 2
MaxTables == 3
MaxYears == 2
MaxAnchors == 2

(***************************************************************************)
(* Python str operations on character sequences.                           *)
(***************************************************************************)
LowerChars == <<"a","b","c","d","e","f","g","h","i","j","k","l","m","n","o","p","q","r","s","t","u","v","w","x","y","z","a'","e'","i'","c,","a~">>
UpperChars == <<"A","B","C","D","E","F","G","H","I","J","K","L","M","N","O","P","Q","R","S","T","U","V","W","X","Y","Z","A'","E'","I'","C,","A~">>
Digits == {"0","1","2","3","4","5","6","7","8","9"}
AsciiUpper == {UpperChars[i] : i \in 1..26}
AsciiLower == {LowerChars[i] : i \in 1..26}

upper_char(c) ==
    IF \E i \in DOMAIN LowerChars : LowerChars[i] = c
    THEN UpperChars[CHOOSE i \in DOMAIN LowerChars : LowerChars[i] = c]
    ELSE c

lower_char(c) ==
    IF \E i \in DOMAIN UpperChars : UpperChars[i] = c
    THEN LowerChars[CHOOSE i \in DOMAIN UpperChars : UpperChars[i] = c]
    ELSE c

upper(s) == [i \in DOMAIN s |-> upper_char(s[i])]
lower(s) == [i \in DOMAIN s |-> lower_char(s[i])]

\* s[i:i+len(sub)] == sub
MatchAt(s, sub, i) ==
    /\ i >= 1
    /\ i + Len(sub) - 1 <= Len(s)
    /\ \A k \in 1..Len(sub) : s[i + k - 1] = sub[k]

\* Python's  sub in s
StrIn(sub, s) == \E i \in 1..(Len(s) + 1) : MatchAt(s, sub, i)

startswith(s, pre) == MatchAt(s, pre, 1)
endswith(s, suf) == MatchAt(s, suf, Len(s) - Len(suf) + 1)

(***************************************************************************)
(* norm(c): NFKD, drop what is not ASCII, upper, runs of non-alphanumerics *)
(* to one underscore, strip underscores.                                   *)
(***************************************************************************)
\* unicodedata.normalize("NFKD", c).encode("ascii","ignore"): the base letter
\* of an accented letter, nothing for a character without an ASCII base.
nfkd_ascii_char(c) ==
    CASE c = "A'" -> <<"A">>
      [] c = "E'" -> <<"E">>
      [] c = "I'" -> <<"I">>
      [] c = "C," -> <<"C">>
      [] c = "A~" -> <<"A">>
      [] c = "a'" -> <<"a">>
      [] c = "e'" -> <<"e">>
      [] c = "i'" -> <<"i">>
      [] c = "c," -> <<"c">>
      [] c = "a~" -> <<"a">>
      [] c = "deg" -> <<>>
      [] OTHER -> <<c>>

RECURSIVE nfkd_ascii(_)
nfkd_ascii(s) ==
    IF s = <<>> THEN <<>> ELSE nfkd_ascii_char(Head(s)) \o nfkd_ascii(Tail(s))

AZ09 == AsciiUpper \cup Digits
AlNum == AsciiLower \cup AsciiUpper \cup Digits

\* re.sub(r"[^...]+", "_", s), keep being the characters of the class
RECURSIVE sub_non_alnum(_, _)
sub_non_alnum(s, keep) ==
    IF s = <<>> THEN <<>>
    ELSE IF Head(s) \in keep THEN <<Head(s)>> \o sub_non_alnum(Tail(s), keep)
    ELSE LET rest == sub_non_alnum(Tail(s), keep)
         IN  IF Len(s) > 1 /\ s[2] \notin keep THEN rest ELSE <<"_">> \o rest

RECURSIVE lstrip_us(_)
lstrip_us(s) == IF s # <<>> /\ Head(s) = "_" THEN lstrip_us(Tail(s)) ELSE s

RECURSIVE rstrip_us(_)
rstrip_us(s) ==
    IF s # <<>> /\ s[Len(s)] = "_" THEN rstrip_us(SubSeq(s, 1, Len(s) - 1)) ELSE s

strip_us(s) == rstrip_us(lstrip_us(s))

norm(c) == strip_us(sub_non_alnum(upper(nfkd_ascii(c)), AZ09))

(***************************************************************************)
(* Literals of the code.                                                   *)
(***************************************************************************)
S_DATA == <<"D","A","T","A">>
S_MEDIA == <<"M","E","D","I","A">>

DateAliases == {S_DATA, <<"D","A","T","A","_","M","E","D","I","C","A","O">>, <<"D","T","_","M","E","D","I","C","A","O">>, <<"D","T","_","M","E","D">>}

(***************************************************************************)
(* A DataFrame: its columns in order, each a name and a series of values,  *)
(* all series of one length.  NA is the null of a coerced value (NaN, NaT, *)
(* None).                                                                  *)
(***************************************************************************)
NA == -1

Col(n, v) == [name |-> n, values |-> v]
columns(d) == [i \in DOMAIN d |-> d[i].name]
nrows(d) == IF d = <<>> THEN 0 ELSE Len(d[1].values)
has(d, n) == \E i \in DOMAIN d : d[i].name = n
getcol(d, n) == d[CHOOSE i \in DOMAIN d : d[i].name = n].values
setcol(d, n, v) ==
    IF has(d, n)
    THEN [i \in DOMAIN d |-> IF d[i].name = n THEN Col(n, v) ELSE d[i]]
    ELSE Append(d, Col(n, v))
isna_all(s) == \A i \in DOMAIN s : s[i] = NA

\* df.rename(columns={c: norm(c) ...})
rename(d) == [i \in DOMAIN d |-> Col(norm(d[i].name), d[i].values)]

(***************************************************************************)
(* The cells of a CSV are text.  pd.to_numeric(errors="coerce") reads a    *)
(* number or gives NA; pd.to_datetime(errors="coerce", dayfirst=True)      *)
(* reads a timestamp or gives NA.  A timestamp is 10 * day + hour slot.    *)
(***************************************************************************)
\* A faulty coercion, for comparison: an invalid token read as zero.
to_numeric_cell_Zero(c) ==
    CASE c = "20" -> 20
      [] c = "30" -> 30
      [] OTHER -> 0

to_numeric_cell(c) ==
    CASE c = "20" -> 20
      [] c = "30" -> 30
      [] OTHER -> NA

to_numeric(s) == [i \in DOMAIN s |-> to_numeric_cell(s[i])]

DayOf(c) ==
    CASE c = "01/01/2020" -> 1
      [] c = "02/01/2020" -> 2
      [] OTHER -> NA

HourOf(c) ==
    CASE c = "0000 UTC" -> 0
      [] c = "1200 UTC" -> 1
      [] OTHER -> NA

\* pd.to_datetime of a date text
to_datetime_cell(c) == IF DayOf(c) = NA THEN NA ELSE 10 * DayOf(c)

\* pd.to_datetime of  date text + " " + hour text
to_datetime_pair(d, h) ==
    IF DayOf(d) = NA \/ HourOf(h) = NA THEN NA ELSE 10 * DayOf(d) + HourOf(h)

\* pick(cols): the first candidate's series, else a series of None
pick(d, cols) ==
    IF cols # <<>> THEN getcol(d, cols[1]) ELSE [i \in 1..nrows(d) |-> "None"]

cand_temp(d) ==
    SelectSeq(columns(d), LAMBDA c :
        StrIn(<<"T","E","M","P","E","R","A","T","U","R","A">>, c) /\ (StrIn(S_MEDIA, c) \/ StrIn(<<"A","R">>, c) \/ StrIn(<<"B","U","L","B","O">>, c)))
cand_tmax(d) == SelectSeq(columns(d), LAMBDA c : StrIn(<<"T","E","M","P","E","R","A","T","U","R","A","_","M","A","X">>, c))
cand_tmin(d) == SelectSeq(columns(d), LAMBDA c : StrIn(<<"T","E","M","P","E","R","A","T","U","R","A","_","M","I","N">>, c))
cand_umid(d) ==
    SelectSeq(columns(d), LAMBDA c :
        StrIn(<<"U","M","I","D","A","D","E">>, c) /\ (StrIn(<<"R","E","L">>, c) \/ StrIn(<<"R","E","L","A","T","I","V","A">>, c)))
cand_prec(d) == SelectSeq(columns(d), LAMBDA c : StrIn(<<"P","R","E","C","I","P">>, c))
cand_vento(d) ==
    SelectSeq(columns(d), LAMBDA c :
        StrIn(<<"V","E","N","T","O">>, c) /\ (StrIn(<<"V","E","L","O","C">>, c) \/ StrIn(<<"V","E","L">>, c)))
cand_press(d) == SelectSeq(columns(d), LAMBDA c : StrIn(<<"P","R","E","S","S","A","O">>, c))

\* [c for c in cand_temp if "MEDIA" in c] or cand_temp
mean_source(d) ==
    LET withMedia == SelectSeq(cand_temp(d), LAMBDA c : StrIn(S_MEDIA, c))
    IN  IF withMedia # <<>> THEN withMedia ELSE cand_temp(d)

\* lines 73-83: df["DATA"], the unified timestamp column
derive_DATA(d1) ==
    LET data_cols == SelectSeq(columns(d1), LAMBDA c : c \in DateAliases)
        hora_cols == SelectSeq(columns(d1), LAMBDA c : startswith(c, <<"H","O","R","A">>))
        d2 == IF ~has(d1, S_DATA) /\ data_cols # <<>>
              THEN setcol(d1, S_DATA, getcol(d1, data_cols[1]))
              ELSE d1
        \* pd.to_datetime(df.get("DATA")): None when there is no DATA column
        dateOnly == IF has(d2, S_DATA)
                    THEN [i \in 1..nrows(d2) |-> to_datetime_cell(getcol(d2, S_DATA)[i])]
                    ELSE [i \in 1..nrows(d2) |-> NA]
        \* df["DATA"] raises KeyError without a DATA column: the except branch
        combined == IF has(d2, S_DATA)
                    THEN [i \in 1..nrows(d2) |->
                            to_datetime_pair(getcol(d2, S_DATA)[i], getcol(d2, hora_cols[1])[i])]
                    ELSE dateOnly
    IN  setcol(d2, S_DATA, IF hora_cols # <<>> THEN combined ELSE dateOnly)

\* A faulty test, for comparison: the fallback fires over actual mean readings.
MeanFallbackFires_Always(o) ==
    /\ ~isna_all(getcol(o, "TEMPERATURA_MAXIMA"))
    /\ ~isna_all(getcol(o, "TEMPERATURA_MINIMA"))

\* lines 107-109: the derived mean temperature
MeanFallbackFires(o) ==
    /\ isna_all(getcol(o, "TEMPERATURA_MEDIA"))
    /\ ~isna_all(getcol(o, "TEMPERATURA_MAXIMA"))
    /\ ~isna_all(getcol(o, "TEMPERATURA_MINIMA"))

\* (max + min) / 2.0, NaN when either is NaN
average(a, b) == IF a = NA \/ b = NA THEN NA ELSE (a + b) \div 2

mean_fallback(o) ==
    IF MeanFallbackFires(o)
    THEN setcol(o, "TEMPERATURA_MEDIA",
            [i \in 1..nrows(o) |->
                average(getcol(o, "TEMPERATURA_MAXIMA")[i], getcol(o, "TEMPERATURA_MINIMA")[i])])
    ELSE o

\* lines 85-105: the projection onto the canonical columns
project(d) ==
    << Col("DATA", getcol(d, S_DATA)),
       Col("TEMPERATURA_MEDIA", to_numeric(pick(d, mean_source(d)))),
       Col("TEMPERATURA_MAXIMA", to_numeric(pick(d, cand_tmax(d)))),
       Col("TEMPERATURA_MINIMA", to_numeric(pick(d, cand_tmin(d)))),
       Col("UMIDADE_RELATIVA", to_numeric(pick(d, cand_umid(d)))),
       Col("PRECIPITACAO", to_numeric(pick(d, cand_prec(d)))),
       Col("VELOCIDADE_VENTO", to_numeric(pick(d, cand_vento(d)))),
       Col("PRESSAO_ATMOSFERICA", to_numeric(pick(d, cand_press(d)))) >>

normalize_columns(d) == mean_fallback(project(derive_DATA(rename(d))))

(***************************************************************************)
(* slugify and the station filter.                                         *)
(***************************************************************************)
slugify(text) == lower(strip_us(sub_non_alnum(nfkd_ascii(text), AlNum)))

TARGET_NAME == <<"S","A","O"," ","L","U","I","Z"," ","D","O"," ","P","A","R","A","I","T","I","N","G","A">>
TARGET_SLUG == slugify(TARGET_NAME)

is_target_station(filename) == StrIn(TARGET_SLUG, slugify(filename))

(***************************************************************************)
(* Link discovery.  An HTML page is the sequence of its anchors in         *)
(* document order, each with its text and its href (empty when the anchor  *)
(* has none: a.get("href") is then None, which the code treats as "").     *)
(***************************************************************************)
PORTAL == <<"h","t","t","p","s",":","/","/","p","o","r","t","a","l",".","i","n","m","e","t",".","g","o","v",".","b","r">>
S_zip == <<".","z","i","p">>

Anchor(t, h) == [text |-> t, href |-> h]

IsSpace(c) == c \in {" ", "TAB", "NL"}

DigitValue(c) ==
    CASE c = "0" -> 0 [] c = "1" -> 1 [] c = "2" -> 2 [] c = "3" -> 3 [] c = "4" -> 4
      [] c = "5" -> 5 [] c = "6" -> 6 [] c = "7" -> 7 [] c = "8" -> 8 [] c = "9" -> 9

\* The position of the first digit of (\d{4}) in a match of
\* ANO\s+(\d{4}).*AUTOM  starting at i, or 0 when there is none.
YearGroupAt(t, i) ==
    IF ~MatchAt(t, <<"A","N","O">>, i) THEN 0
    ELSE LET ok(j) == /\ j > i + 3
                      /\ j + 3 <= Len(t)
                      /\ \A k \in (i + 3)..(j - 1) : IsSpace(t[k])
                      /\ \A k \in j..(j + 3) : t[k] \in Digits
                      /\ \E a \in (j + 4)..Len(t) :
                            /\ MatchAt(t, <<"A","U","T","O","M">>, a)
                            /\ \A k \in (j + 4)..(a - 1) : t[k] # "NL"
         IN  IF \E j \in 1..Len(t) : ok(j) THEN CHOOSE j \in 1..Len(t) : ok(j) ELSE 0

\* re.search: the leftmost match; int(m.group(1)), or 0 when m is None
year_search(t) ==
    LET starts == { i \in 1..Len(t) : YearGroupAt(t, i) # 0 }
    IN  IF starts = {} THEN 0
        ELSE LET i == CHOOSE x \in starts : \A y \in starts : x <= y
                 j == YearGroupAt(t, i)
             IN  1000 * DigitValue(t[j]) + 100 * DigitValue(t[j + 1])
                   + 10 * DigitValue(t[j + 2]) + DigitValue(t[j + 3])

\* lines 34-35 and 45-46
absolute(href) == IF ~startswith(href, <<"h","t","t","p">>) THEN PORTAL \o href ELSE href

\* A faulty loop, for comparison: the first anchor of a year is kept.
RECURSIVE year_links_loop_FirstWins(_, _)
year_links_loop_FirstWins(anchors, links) ==
    IF anchors = <<>> THEN links
    ELSE LET a == Head(anchors)
             y == year_search(upper(a.text))
         IN  IF y # 0 /\ a.href # <<>> /\ y \notin DOMAIN links
             THEN year_links_loop_FirstWins(Tail(anchors),
                     [k \in DOMAIN links \cup {y} |-> IF k = y THEN absolute(a.href) ELSE links[k]])
             ELSE year_links_loop_FirstWins(Tail(anchors), links)

\* find_year_links: the dict after the loop over the anchors; a later anchor of
\* a year overwrites an earlier one.
RECURSIVE year_links_loop(_, _)
year_links_loop(anchors, links) ==
    IF anchors = <<>> THEN links
    ELSE LET a == Head(anchors)
             y == year_search(upper(a.text))
         IN  IF y # 0 /\ a.href # <<>>
             THEN year_links_loop(Tail(anchors),
                     [k \in DOMAIN links \cup {y} |-> IF k = y THEN absolute(a.href) ELSE links[k]])
             ELSE year_links_loop(Tail(anchors), links)

find_year_links(html) == year_links_loop(html, <<>>)

\* A faulty scan, for comparison: the suffix is compared case-sensitively.
RECURSIVE find_zip_links_CaseSensitive(_)
find_zip_links_CaseSensitive(html) ==
    IF html = <<>> THEN <<>>
    ELSE LET href == Head(html).href
         IN  IF endswith(href, S_zip)
             THEN <<absolute(href)>> \o find_zip_links_CaseSensitive(Tail(html))
             ELSE find_zip_links_CaseSensitive(Tail(html))

RECURSIVE find_zip_links(_)
find_zip_links(html) ==
    IF html = <<>> THEN <<>>
    ELSE LET href == Head(html).href
         IN  IF endswith(lower(href), S_zip)
             THEN <<absolute(href)>> \o find_zip_links(Tail(html))
             ELSE find_zip_links(Tail(html))

(***************************************************************************)
(* A ZIP archive: corrupt, or the sequence of its members, each a file     *)
(* name and its bytes.  The bytes of a CSV are what pd.read_csv makes of   *)
(* them under each (encoding, separator): a failure or a table.            *)
(***************************************************************************)
\* A faulty order of the encodings, for comparison.
encodings_Reordered == <<"utf-8-sig", "latin-1", "utf-8">>

encodings == <<"latin-1", "utf-8-sig", "utf-8">>
separators == {";", ",", "auto"}
Readings == { <<e, sp>> : e \in {"latin-1", "utf-8-sig", "utf-8"}, sp \in separators }

Parsed(t) == [ok |-> TRUE, table |-> t]
Unreadable == [ok |-> FALSE, table |-> <<>>]

\* pd.read_csv(io.BytesIO(bytes_content), sep=sp, encoding=enc)
read_csv(bytes, enc, sp) == bytes[<<enc, sp>>]

\* The readings try_read_csv makes, in its order: sep=";" under each encoding of
\* the loop, then the default separator (a comma) under latin-1.
DecodeOrder == << <<"latin-1", ";">>, <<"utf-8-sig", ";">>, <<"utf-8", ";">>, <<"latin-1", ",">> >>

\* try_read_csv as a function: the first reading that parses; ok is FALSE when
\* the last read_csv, which is outside any try, raises.
try_read_csv(bytes) ==
    LET good == { k \in DOMAIN DecodeOrder : read_csv(bytes, DecodeOrder[k][1], DecodeOrder[k][2]).ok }
    IN  IF good = {} THEN Unreadable
        ELSE LET k == CHOOSE x \in good : \A y \in good : x <= y
             IN  read_csv(bytes, DecodeOrder[k][1], DecodeOrder[k][2])

Member(f, b) == [filename |-> f, bytes |-> b]

\* iter_csv_from_zip: the members whose name ends in .csv, in archive order
csv_members(zf) == SelectSeq(zf, LAMBDA m : endswith(lower(m.filename), <<".","c","s","v">>))

(***************************************************************************)
(* Decoded tables given to normalize_columns: headers as INMET files and   *)
(* the portal's exports spell them, cells as CSV text.                     *)
(***************************************************************************)
H_Data == <<"D","a","t","a">>
H_DataMedicao == <<"D","a","t","a"," ","M","e","d","i","c","a","o">>
H_HoraUTC == <<"H","o","r","a"," ","U","T","C">>
H_TempMedia == <<"T","e","m","p","e","r","a","t","u","r","a"," ","M","e'","d","i","a"," ","(","deg","C",")">>
H_TempAr == <<"T","E","M","P","E","R","A","T","U","R","A"," ","D","O"," ","A","R">>
H_TempMax == <<"T","E","M","P","E","R","A","T","U","R","A"," ","M","A'","X","I","M","A">>
H_TempMin == <<"T","E","M","P","E","R","A","T","U","R","A"," ","M","I'","N","I","M","A">>
H_Umidade == <<"U","M","I","D","A","D","E"," ","R","E","L","A","T","I","V","A">>
H_Precip == <<"P","R","E","C","I","P","I","T","A","C,","A~","O">>
H_Vento == <<"V","E","N","T","O",","," ","V","E","L","O","C","I","D","A","D","E">>
H_Pressao == <<"P","R","E","S","S","A","O"," ","(","m","B",")">>
H_Radiacao == <<"R","A","D","I","A","C","A","O">>

ColumnLayouts ==
    { <<H_Radiacao>>,
      <<H_Data, H_HoraUTC>>,
      <<H_DataMedicao, H_TempMedia>>,
      <<H_DataMedicao, H_Data>>,
      <<H_HoraUTC, H_TempMax>>,
      <<H_TempMedia, H_TempMax, H_TempMin>>,
      <<H_TempAr, H_TempMedia>>,
      <<H_TempMin, H_TempMax>>,
      <<H_Umidade, H_Precip>>,
      <<H_Vento, H_Pressao>> }

CellPool(h) ==
    IF h \in {H_Data, H_DataMedicao} THEN {"01/01/2020", "02/01/2020", "n/d"}
    ELSE IF h = H_HoraUTC THEN {"0000 UTC", "1200 UTC", "n/d"}
    ELSE IF h = H_TempMax THEN {"30", "n/d"}
    ELSE {"20", "n/d"}

RECURSIVE FramesOf(_, _)
FramesOf(layout, n) ==
    IF layout = <<>> THEN {<<>>}
    ELSE { <<Col(Head(layout), s)>> \o rest :
              s \in [1..n -> CellPool(Head(layout))], rest \in FramesOf(Tail(layout), n) }

RawTables == UNION { FramesOf(l, n) : l \in ColumnLayouts, n \in 0..MaxRows }

(***************************************************************************)
(* The combiner (main, lines 181-182).  The rows of a table are records    *)
(* over its columns.                                                       *)
(***************************************************************************)
rows_of(d) ==
    [i \in 1..nrows(d) |-> [n \in {d[j].name : j \in DOMAIN d} |-> getcol(d, n)[i]]]

\* pd.concat(all_dfs, ignore_index=True)
RECURSIVE concat(_)
concat(dfs) == IF dfs = <<>> THEN <<>> ELSE rows_of(Head(dfs)) \o concat(Tail(dfs))

\* .dropna(subset=["DATA"])
dropna(rows) == SelectSeq(rows, LAMBDA r : r["DATA"] # NA)

\* .sort_values("DATA"): the default kind of sort ("quicksort") is not stable,
\* so rows of equal DATA may come out in any order.  The set of the orders
\* the call may produce: the rows of S, ascending by DATA.
RECURSIVE SortedOrders(_, _)
SortedOrders(rows, S) ==
    IF S = {} THEN {<<>>}
    ELSE LET least == { i \in S : \A j \in S : rows[i]["DATA"] <= rows[j]["DATA"] }
         IN  UNION { { <<rows[i]>> \o rest : rest \in SortedOrders(rows, S \ {i}) } : i \in least }

sort_values(rows) == SortedOrders(rows, DOMAIN rows)

\* A faulty combiner step, for comparison: no row is dropped.
drop_duplicates_None(rows) == rows

\* .drop_duplicates(subset=["DATA"]): the first row of each DATA is kept
drop_duplicates(rows) ==
    LET keep == { i \in DOMAIN rows : \A j \in 1..(i - 1) : rows[j]["DATA"] # rows[i]["DATA"] }
        RECURSIVE pickKept(_)
        pickKept(i) ==
            IF i > Len(rows) THEN <<>>
            ELSE (IF i \in keep THEN <<rows[i]>> ELSE <<>>) \o pickKept(i + 1)
    IN  pickKept(1)

(***************************************************************************)
(* What the portal serves in the runs explored.                            *)
(***************************************************************************)
BASE_URL == PORTAL \o <<"/","d","a","d","o","s","h","i","s","t","o","r","i","c","o","s">>

T_Auto2019 == <<"A","N","O"," ","2","0","1","9"," ","(","A","U","T","O","M","A'","T","I","C","A",")">>
T_auto2020 == <<"A","n","o"," ","2","0","2","0"," ","(","a","u","t","o","m","a'","t","i","c","a",")">>
T_Conv2019 == <<"A","N","O"," ","2","0","1","9"," ","(","C","O","N","V","E","N","C","I","O","N","A","L",")">>
T_Sobre == <<"S","o","b","r","e">>
U_RelZip == <<"/","u","p","l","o","a","d","s","/","2","0","1","9",".","z","i","p">>
U_RelDir == <<"/","d","a","d","o","s","/","2","0","1","9">>
U_Abs == <<"h","t","t","p","s",":","/","/","c","d","n",".","i","n","m","e","t",".","b","r","/","2","0","2","0">>
Z_RelA == <<"/","z","/","a",".","z","i","p">>
Z_RelUpper == <<"/","z","/","B",".","Z","I","P">>
Z_Abs == <<"h","t","t","p",":","/","/","c","d","n",".","i","n","m","e","t",".","b","r","/","c",".","z","i","p">>
Z_Pdf == <<"/","z","/","l","e","i","a","m","e",".","p","d","f">>
CT_Html == <<"t","e","x","t","/","h","t","m","l",";"," ","c","h","a","r","s","e","t","=","U","T","F","-","8">>
CT_HtmlUpper == <<"T","e","x","t","/","H","T","M","L">>
CT_Zip == <<"a","p","p","l","i","c","a","t","i","o","n","/","z","i","p">>
F_Target == <<"A","7","4","0","_","S","A","O"," ","L","U","I","Z"," ","D","O"," ","P","A","R","A","I","T","I","N","G","A",".","C","S","V">>
F_TargetAccent == <<"a","7","4","0","_","S","a~","o"," ","L","u","i","z"," ","d","o"," ","P","a","r","a","i","t","i","n","g","a",".","c","s","v">>
F_Other == <<"A","7","0","1","_","S","A","O"," ","P","A","U","L","O",".","C","S","V">>
F_Readme == <<"L","E","I","A","M","E",".","T","X","T">>

\* Anchors of an index page and of a listing page.
IndexAnchors ==
    { Anchor(T_Auto2019, U_RelZip), Anchor(T_Auto2019, U_RelDir), Anchor(T_auto2020, U_Abs),
      Anchor(T_Auto2019, <<>>), Anchor(T_Conv2019, U_RelDir) }

ListingAnchors ==
    { Anchor(T_Sobre, Z_RelA), Anchor(T_Sobre, Z_RelUpper), Anchor(T_Sobre, Z_Abs),
      Anchor(T_Sobre, Z_Pdf) }

RECURSIVE SeqsUpTo(_, _)
SeqsUpTo(S, n) ==
    IF n = 0 THEN {<<>>}
    ELSE SeqsUpTo(S, n - 1) \cup { Append(q, x) : q \in { r \in SeqsUpTo(S, n - 1) : Len(r) = n - 1 }, x \in S }

Response(c, b) == [ctype |-> c, body |-> b]
NoResponse == Response(<<>>, <<>>)

\* The bytes of CSV members: each reading of them fails or gives a table.
CsvOf(good, t) == [r \in Readings |-> IF r \in good THEN Parsed(t) ELSE Unreadable]

TableA == << Col(H_Data, <<"01/01/2020", "02/01/2020">>), Col(H_TempMedia, <<"20", "20">>) >>
TableB == << Col(H_Data, <<"02/01/2020", "n/d">>), Col(H_TempMedia, <<"30", "30">>) >>
TableC == << Col(H_Data, <<"02/01/2020", "01/01/2020">>), Col(H_TempMedia, <<"30", "30">>) >>
TableNoRows == << Col(H_Data, <<>>), Col(H_TempMedia, <<>>) >>
TableNoDate == << Col(H_TempMin, <<"20">>), Col(H_TempMax, <<"30">>) >>

CsvA == CsvOf(Readings, TableA)
CsvB == CsvOf({<<"latin-1", ",">>, <<"utf-8", ",">>}, TableB)
CsvNoRows == CsvOf({<<"utf-8-sig", ";">>, <<"utf-8", ";">>}, TableNoRows)
CsvNoDate == CsvOf({<<"utf-8", ";">>, <<"latin-1", "auto">>}, TableNoDate)
CsvUnreadable == CsvOf({}, TableA)

Zip(ms) == [corrupt |-> FALSE, members |-> ms]
CorruptZip == [corrupt |-> TRUE, members |-> <<>>]

ZipA == Zip(<< Member(F_Readme, CsvA), Member(F_Target, CsvA) >>)
ZipMixed == Zip(<< Member(F_Other, CsvA), Member(F_TargetAccent, CsvUnreadable), Member(F_Target, CsvB) >>)
ZipNoRows == Zip(<< Member(F_Target, CsvNoRows) >>)
ZipNoDate == Zip(<< Member(F_TargetAccent, CsvNoDate) >>)

\* One year explored in depth: every small index page and listing page.
YearPortal ==
    [ index |-> SeqsUpTo(IndexAnchors, MaxAnchors),
      year |-> { Response(c, b) : c \in {CT_Html, CT_HtmlUpper}, b \in SeqsUpTo(ListingAnchors, MaxAnchors) }
                  \cup { Response(c, <<>>) : c \in {CT_Zip, <<>>} },
      zips |-> {ZipA} ]

\* Whole runs: two index pages, three answers to a year's URL, every archive.
IndexBoth == << Anchor(T_Sobre, U_RelDir), Anchor(T_Auto2019, U_RelDir), Anchor(T_auto2020, U_Abs) >>
IndexOnly2019 == << Anchor(T_Auto2019, U_RelZip) >>
ListingTwo == << Anchor(T_Sobre, Z_RelA), Anchor(T_Sobre, Z_Pdf), Anchor(T_Sobre, Z_Abs) >>

RunPortal ==
    [ index |-> {IndexBoth, IndexOnly2019},
      year |-> { Response(CT_Html, ListingTwo), Response(CT_Zip, <<>>) },
      zips |-> {ZipA, ZipMixed, ZipNoRows, ZipNoDate, CorruptZip} ]

RequestedYears == {2019, 2020}

\* The answers the portal may give, by the name held in  portal.
Served == IF portal = "one_year" THEN YearPortal ELSE RunPortal

(***************************************************************************)
(* The values of the variables a specification does not use.               *)
(***************************************************************************)
IdleNorm == df = <<>> /\ out = <<>> /\ npc = "idle"

IdleDecode ==
    /\ bytes_content = <<>>
    /\ enc_i = 1
    /\ attempts = <<>>
    /\ decoded = Unreadable
    /\ dpc = "idle"

FreshCall ==
    /\ res = <<>>
    /\ year_links = <<>>
    /\ year_url = <<>>
    /\ res_y = NoResponse
    /\ zip_links = <<>>
    /\ zi = 1
    /\ members = <<>>
    /\ out_dfs = <<>>
    /\ gets = <<>>

IdleMain ==
    /\ portal = "none"
    /\ years = <<>>
    /\ yi = 1
    /\ pc = "idle"
    /\ entered = <<>>
    /\ all_dfs = <<>>
    /\ df_all = <<>>
    /\ file_written = FALSE
    /\ log = {}
    /\ FreshCall

(***************************************************************************)
(* SpecNorm: normalize_columns applied to a decoded table.                 *)
(***************************************************************************)
InitNorm ==
    /\ df \in RawTables
    /\ out = <<>>
    /\ npc = "call"
    /\ IdleDecode
    /\ IdleMain

NormalizeColumns ==
    /\ npc = "call"
    /\ out' = normalize_columns(df)
    /\ npc' = "done"
    /\ UNCHANGED <<df, decodeVars, callVars, mainVars>>

NextNorm == NormalizeColumns

SpecNorm == InitNorm /\ [][NextNorm]_vars

(***************************************************************************)
(* SpecDecode: try_read_csv, one reading of the bytes at a time.           *)
(***************************************************************************)
\* The table a reading gives when it parses: one per reading, so that the
\* result tells which reading produced it.
TableOfReading(r) ==
    << Col(IF r[2] = ";" THEN H_Data ELSE IF r[2] = "," THEN H_DataMedicao ELSE H_HoraUTC,
           <<r[1]>>) >>

AnyBytes ==
    { [r \in Readings |-> IF r \in good THEN Parsed(TableOfReading(r)) ELSE Unreadable] :
        good \in SUBSET Readings }

InitDecode ==
    /\ bytes_content \in AnyBytes
    /\ enc_i = 1
    /\ attempts = <<>>
    /\ decoded = Unreadable
    /\ dpc = "loop"
    /\ IdleNorm
    /\ IdleMain

\* lines 58-62: one iteration of  for enc in [...]
TryEncoding ==
    /\ dpc = "loop"
    /\ enc_i <= Len(encodings)
    /\ LET r == read_csv(bytes_content, encodings[enc_i], ";")
       IN  /\ attempts' = Append(attempts, <<encodings[enc_i], ";">>)
           /\ IF r.ok
              THEN decoded' = r /\ dpc' = "returned" /\ enc_i' = enc_i
              ELSE decoded' = decoded /\ dpc' = "loop" /\ enc_i' = enc_i + 1
    /\ UNCHANGED <<bytes_content, normVars, callVars, mainVars>>

\* line 63: the last reading, outside any try
LastReading ==
    /\ dpc = "loop"
    /\ enc_i > Len(encodings)
    /\ LET r == read_csv(bytes_content, "latin-1", ",")
       IN  /\ attempts' = Append(attempts, <<"latin-1", ",">>)
           /\ decoded' = r
           /\ dpc' = IF r.ok THEN "returned" ELSE "raised"
    /\ UNCHANGED <<bytes_content, enc_i, normVars, callVars, mainVars>>

NextDecode == TryEncoding \/ LastReading

SpecDecode == InitDecode /\ [][NextDecode]_vars

(***************************************************************************)
(* main and download_and_extract_for_year.                                 *)
(***************************************************************************)
Say(kind) == log' = log \cup {<<kind, years[yi]>>}

\* return from download_and_extract_for_year, and  all_dfs.extend(dfs)
ReturnTo(dfs) ==
    /\ all_dfs' = all_dfs \o dfs
    /\ yi' = yi + 1
    /\ pc' = "main"

\* an exception no handler catches: the interpreter prints it and exits
Crash == pc' = "crashed"

\* lines 173-174 and 117: the next year of the loop
Call ==
    /\ pc = "main"
    /\ yi <= Len(years)
    /\ entered' = Append(entered, years[yi])
    /\ pc' = "get_index"
    /\ res' = <<>>
    /\ year_links' = <<>>
    /\ year_url' = <<>>
    /\ res_y' = NoResponse
    /\ zip_links' = <<>>
    /\ zi' = 1
    /\ members' = <<>>
    /\ out_dfs' = <<>>
    /\ gets' = <<>>
    /\ UNCHANGED <<portal, years, yi, all_dfs, df_all, file_written, log, normVars, decodeVars>>

\* lines 118-119
GetIndex ==
    /\ pc = "get_index"
    /\ gets' = Append(gets, BASE_URL)
    /\ \/ \* get raises (timeout, HTTP status), or BeautifulSoup does
          /\ Crash
          /\ UNCHANGED <<res, year_links>>
       \/ \E page \in Served.index :
             /\ res' = page
             /\ year_links' = find_year_links(page)
             /\ pc' = "lookup"
    /\ UNCHANGED <<year_url, res_y, zip_links, zi, members, out_dfs>>
    /\ UNCHANGED <<portal, years, yi, entered, all_dfs, df_all, file_written, log, normVars, decodeVars>>

\* lines 120-124
Lookup ==
    /\ pc = "lookup"
    /\ IF years[yi] \notin DOMAIN year_links
       THEN /\ Say("no_link")
            /\ ReturnTo(<<>>)
            /\ UNCHANGED year_url
       ELSE /\ year_url' = year_links[years[yi]]
            /\ pc' = "get_year"
            /\ UNCHANGED <<yi, all_dfs, log>>
    /\ UNCHANGED <<res, year_links, res_y, zip_links, zi, members, out_dfs, gets>>
    /\ UNCHANGED <<portal, years, entered, df_all, file_written, normVars, decodeVars>>

\* lines 125-137
GetYear ==
    /\ pc = "get_year"
    /\ gets' = Append(gets, year_url)
    /\ \/ \* get raises
          /\ Crash
          /\ UNCHANGED <<res_y, zip_links, yi, all_dfs, log>>
       \/ \E r \in Served.year :
             /\ res_y' = r
             /\ IF ~StrIn(<<"t","e","x","t","/","h","t","m","l">>, lower(r.ctype))
                THEN /\ Say("direct_link")
                     /\ zip_links' = <<year_url>>
                     /\ pc' = "zips"
                     /\ UNCHANGED <<yi, all_dfs>>
                ELSE \/ /\ zip_links' = find_zip_links(r.body)
                        /\ pc' = "zips"
                        /\ UNCHANGED <<yi, all_dfs, log>>
                     \/ \* find_zip_links raises
                        /\ Say("parse_error")
                        /\ ReturnTo(<<>>)
                        /\ UNCHANGED zip_links
    /\ UNCHANGED <<res, year_links, year_url, zi, members, out_dfs>>
    /\ UNCHANGED <<portal, years, entered, df_all, file_written, normVars, decodeVars>>

\* lines 140-147 and 151-152: one archive is requested and opened
GetZip ==
    /\ pc = "zips"
    /\ zi <= Len(zip_links)
    /\ gets' = Append(gets, zip_links[zi])
    /\ \/ \* get raises, caught at line 151
          /\ Say("archive_failure")
          /\ zi' = zi + 1
          /\ UNCHANGED <<members, pc>>
       \/ \E content \in Served.zips :
             IF content.corrupt
             THEN \* zipfile.ZipFile raises, caught at line 151
                  /\ Say("archive_failure")
                  /\ zi' = zi + 1
                  /\ UNCHANGED <<members, pc>>
             ELSE /\ members' = csv_members(content.members)
                  /\ pc' = "members"
                  /\ UNCHANGED <<zi, log>>
    /\ UNCHANGED <<res, year_links, year_url, res_y, zip_links, out_dfs>>
    /\ UNCHANGED <<portal, years, yi, entered, all_dfs, df_all, file_written, normVars, decodeVars>>

\* lines 147-152: one CSV member of the open archive
NextMember ==
    /\ pc = "members"
    /\ members # <<>>
    /\ LET m == Head(members)
           r == try_read_csv(m.bytes)
       IN  IF ~is_target_station(m.filename)
           THEN /\ members' = Tail(members)
                /\ UNCHANGED <<out_dfs, zi, pc, log>>
           ELSE IF r.ok
           THEN /\ out_dfs' = Append(out_dfs, normalize_columns(r.table))
                /\ members' = Tail(members)
                /\ UNCHANGED <<zi, pc, log>>
           ELSE \* try_read_csv raises: caught at line 151, the archive is left
                /\ Say("archive_failure")
                /\ members' = <<>>
                /\ zi' = zi + 1
                /\ pc' = "zips"
                /\ UNCHANGED out_dfs
    /\ UNCHANGED <<res, year_links, year_url, res_y, zip_links, gets>>
    /\ UNCHANGED <<portal, years, yi, entered, all_dfs, df_all, file_written, normVars, decodeVars>>

\* the members of the archive are exhausted: the next archive
EndMembers ==
    /\ pc = "members"
    /\ members = <<>>
    /\ zi' = zi + 1
    /\ pc' = "zips"
    /\ UNCHANGED <<res, year_links, year_url, res_y, zip_links, members, out_dfs, gets>>
    /\ UNCHANGED <<portal, years, yi, entered, all_dfs, df_all, file_written, log, normVars, decodeVars>>

\* line 153 and line 175
Return ==
    /\ pc = "zips"
    /\ zi > Len(zip_links)
    /\ ReturnTo(out_dfs)
    /\ UNCHANGED callVars
    /\ UNCHANGED <<portal, years, entered, df_all, file_written, log, normVars, decodeVars>>

\* lines 177-179
NoData ==
    /\ pc = "main"
    /\ yi > Len(years)
    /\ all_dfs = <<>>
    /\ log' = log \cup {<<"no_data", 0>>}
    /\ pc' = "done"
    /\ UNCHANGED callVars
    /\ UNCHANGED <<portal, years, yi, entered, all_dfs, df_all, file_written, normVars, decodeVars>>

\* lines 181-187
Combine ==
    /\ pc = "main"
    /\ yi > Len(years)
    /\ all_dfs # <<>>
    /\ \E sorted \in sort_values(dropna(concat(all_dfs))) :
          df_all' = drop_duplicates(sorted)
    /\ file_written' = TRUE
    /\ log' = log \cup {<<"saved", 0>>}
    /\ pc' = "done"
    /\ UNCHANGED callVars
    /\ UNCHANGED <<portal, years, yi, entered, all_dfs, normVars, decodeVars>>

Next ==
    \/ Call \/ GetIndex \/ Lookup \/ GetYear \/ GetZip
    \/ NextMember \/ EndMembers \/ Return \/ NoData \/ Combine

StartMain ==
    /\ yi = 1
    /\ pc = "main"
    /\ entered = <<>>
    /\ all_dfs = <<>>
    /\ df_all = <<>>
    /\ file_written = FALSE
    /\ log = {}
    /\ FreshCall
    /\ IdleNorm
    /\ IdleDecode

\* Whole runs over up to MaxYears requested years.
Init ==
    /\ portal = "runs"
    /\ years \in SeqsUpTo(RequestedYears, MaxYears)
    /\ StartMain

Spec == Init /\ [][Next]_vars

\* The processing of one year, over every small index and listing page.
InitYear ==
    /\ portal = "one_year"
    /\ years \in {<<2019>>, <<2020>>}
    /\ StartMain

SpecYear == InitYear /\ [][Next]_vars

(***************************************************************************)
(* SpecCombine: the end of main, after a year that collected the tables.   *)
(***************************************************************************)
NormalizedPool == { normalize_columns(t) : t \in {TableA, TableB, TableC, TableNoRows, TableNoDate} }

InitCombine ==
    /\ portal = "runs"
    /\ years = <<2019>>
    /\ yi = 2
    /\ pc = "main"
    /\ entered = <<2019>>
    /\ all_dfs \in SeqsUpTo(NormalizedPool, MaxTables)
    /\ df_all = <<>>
    /\ file_written = FALSE
    /\ log = {}
    /\ FreshCall
    /\ IdleNorm
    /\ IdleDecode

NextCombine == NoData \/ Combine

SpecCombine == InitCombine /\ [][NextCombine]_vars

(***************************************************************************)
(* Properties of normalize_columns (SpecNorm).                             *)
(***************************************************************************)
CanonicalColumns ==
    << "DATA", "TEMPERATURA_MEDIA", "TEMPERATURA_MAXIMA", "TEMPERATURA_MINIMA",
       "UMIDADE_RELATIVA", "PRECIPITACAO", "VELOCIDADE_VENTO", "PRESSAO_ATMOSFERICA" >>

Measurements == { CanonicalColumns[i] : i \in 2..8 }

\* The headers of the tables above that are a source of each measurement.
SourceHeaders(m) ==
    CASE m = "TEMPERATURA_MEDIA" -> {H_TempMedia, H_TempAr}
      [] m = "TEMPERATURA_MAXIMA" -> {H_TempMax}
      [] m = "TEMPERATURA_MINIMA" -> {H_TempMin}
      [] m = "UMIDADE_RELATIVA" -> {H_Umidade}
      [] m = "PRECIPITACAO" -> {H_Precip}
      [] m = "VELOCIDADE_VENTO" -> {H_Vento}
      [] m = "PRESSAO_ATMOSFERICA" -> {H_Pressao}

HasSource(m) == \E i \in DOMAIN df : df[i].name \in SourceHeaders(m)

\* The mean temperature as projected from the source table, before step 4.
ProjectedMean == getcol(project(derive_DATA(rename(df))), "TEMPERATURA_MEDIA")

FallbackCase(pm, mx, mn) ==
    /\ \A i \in DOMAIN pm : pm[i] = NA
    /\ \E i \in DOMAIN mx : mx[i] # NA
    /\ \E i \in DOMAIN mn : mn[i] # NA

IsRowAverage(mean, mx, mn) ==
    \A i \in DOMAIN mean :
        IF mx[i] = NA \/ mn[i] = NA
        THEN mean[i] = NA
        ELSE 2 * mean[i] = mx[i] + mn[i]

\* C7: TEMPERATURA_MEDIA is the row-wise average of max and min exactly when the
\* projected mean is null in every row and max and min each have a non-null
\* value; otherwise (one real mean reading anywhere) no row is changed; when the
\* fallback fires a row with a null max or min gets a null mean.
C7_MeanFallback ==
    npc = "done" =>
        LET pm == ProjectedMean
            mean == getcol(out, "TEMPERATURA_MEDIA")
            mx == getcol(out, "TEMPERATURA_MAXIMA")
            mn == getcol(out, "TEMPERATURA_MINIMA")
        IN  IF FallbackCase(pm, mx, mn) THEN IsRowAverage(mean, mx, mn) ELSE mean = pm

C7_Witness ==
    /\ npc = "done"
    /\ LET mean == getcol(out, "TEMPERATURA_MEDIA")
           mx == getcol(out, "TEMPERATURA_MAXIMA")
           mn == getcol(out, "TEMPERATURA_MINIMA")
       IN  /\ FallbackCase(ProjectedMean, mx, mn)
           /\ \E i \in DOMAIN mean : mean[i] = 25
           /\ \E i \in DOMAIN mean : mx[i] = NA /\ mn[i] # NA /\ mean[i] = NA

C8_Shape ==
    /\ columns(out) = CanonicalColumns
    /\ \A j \in DOMAIN out : Len(out[j].values) = nrows(df)

\* The first source column of measurement m in table order (a header with MEDIA
\* preferred for the mean temperature).
FirstSource(m) ==
    LET pref == IF m = "TEMPERATURA_MEDIA" /\ (\E i \in DOMAIN df : df[i].name = H_TempMedia)
                THEN {H_TempMedia} ELSE SourceHeaders(m)
        k == CHOOSE i \in DOMAIN df :
                 /\ df[i].name \in pref
                 /\ \A j \in 1..(i - 1) : df[j].name \notin pref
    IN  df[k].values

\* An invalid token of the source column is null in the projection (the mean
\* temperature may then be derived in step 4); an unparseable date is null.
C8_Coercion ==
    /\ \A m \in Measurements :
          HasSource(m) =>
              \/ \A i \in 1..nrows(df) :
                    FirstSource(m)[i] \notin {"20", "30"} => getcol(out, m)[i] = NA
              \/ /\ m = "TEMPERATURA_MEDIA"
                 /\ \A i \in 1..nrows(df) : FirstSource(m)[i] \notin {"20", "30"}
                 /\ IsRowAverage(getcol(out, m), getcol(out, "TEMPERATURA_MAXIMA"),
                                 getcol(out, "TEMPERATURA_MINIMA"))
    /\ \A j \in DOMAIN df :
          \/ df[j].name = H_Data
          \/ df[j].name = H_DataMedicao /\ \A k \in DOMAIN df : df[k].name # H_Data
          => \A i \in 1..nrows(df) :
                 df[j].values[i] = "n/d" => getcol(out, "DATA")[i] = NA

IsPrefix(p, q) == Len(p) <= Len(q) /\ \A i \in DOMAIN p : p[i] = q[i]

FourReadings == << <<"latin-1", ";">>, <<"utf-8-sig", ";">>, <<"utf-8", ";">>, <<"latin-1", ",">> >>

NineReadings ==
    << <<"latin-1", ";">>, <<"latin-1", ",">>, <<"latin-1", "auto">>,
       <<"utf-8-sig", ";">>, <<"utf-8-sig", ",">>, <<"utf-8-sig", "auto">>,
       <<"utf-8", ";">>, <<"utf-8", ",">>, <<"utf-8", "auto">> >>

\* The readings made follow the order, every reading but the last failed, and
\* the result is that of the last reading, which ends the decoding.
FirstSuccessIn(order) ==
    /\ IsPrefix(attempts, order)
    /\ \A i \in 1..(Len(attempts) - 1) : ~bytes_content[attempts[i]].ok
    /\ dpc = "returned" =>
          /\ attempts # <<>>
          /\ bytes_content[attempts[Len(attempts)]].ok
          /\ decoded = bytes_content[attempts[Len(attempts)]]
    /\ dpc = "raised" => attempts = order /\ \A i \in DOMAIN order : ~bytes_content[order[i]].ok
    /\ dpc = "loop" => \A i \in DOMAIN attempts : ~bytes_content[attempts[i]].ok

\* C6 as stated: nine readings, encoding-major (latin-1, utf-8-sig, utf-8, each
\* with semicolon, comma, auto-detect); the first success is returned and ends
\* the decoding.
C6_NineReadings == FirstSuccessIn(NineReadings)

\* C6 (amended): four readings in a fixed order: semicolon under latin-1, under
\* utf-8-sig and under utf-8, then the default comma under latin-1; the first
\* reading that succeeds is returned and no reading follows a success.
C6_DecodeOrder == FirstSuccessIn(FourReadings)

C6_Witness ==
    /\ dpc = "returned"
    /\ attempts = << <<"latin-1", ";">>, <<"utf-8-sig", ";">>, <<"utf-8", ";">> >>
    /\ decoded = Parsed(TableOfReading(<<"utf-8", ";">>))
    /\ bytes_content[<<"latin-1", ",">>].ok

(***************************************************************************)
(* Properties of the combiner (SpecCombine).                               *)
(***************************************************************************)
DatesOf(dfs) ==
    UNION { { getcol(dfs[k], "DATA")[i] : i \in 1..nrows(dfs[k]) } : k \in DOMAIN dfs }

\* C3: the combined table has no row with a null DATA, its DATA values are
\* strictly ascending (so pairwise distinct), and every distinct non-null DATA
\* of the input tables appears in it (so exactly once).
C3_CombinedOrdered ==
    file_written =>
        /\ \A i \in DOMAIN df_all : df_all[i]["DATA"] # NA
        /\ \A i \in DOMAIN df_all : \A j \in DOMAIN df_all :
              i < j => df_all[i]["DATA"] < df_all[j]["DATA"]
        /\ { df_all[i]["DATA"] : i \in DOMAIN df_all } = DatesOf(all_dfs) \ {NA}

C3_Witness ==
    /\ file_written
    /\ Len(df_all) = 2
    /\ NA \in DatesOf(all_dfs)
    /\ Len(concat(all_dfs)) >= 5
    /\ getcol(all_dfs[1], "DATA") = <<20, 10>>

\* C4: of the rows that share a DATA the combiner keeps the one that came first
\* in the concatenation of the tables (what a stable sort puts first), and the
\* output has one row per distinct DATA.
C4_FirstInConcatKept ==
    file_written =>
        LET input == concat(all_dfs)
        IN  /\ Len(df_all) = Cardinality(DatesOf(all_dfs) \ {NA})
            /\ \A i \in DOMAIN df_all :
                  \E k \in DOMAIN input :
                      /\ input[k] = df_all[i]
                      /\ \A j \in 1..(k - 1) : input[j]["DATA"] # df_all[i]["DATA"]

(***************************************************************************)
(* Properties of whole runs (Spec).                                        *)
(***************************************************************************)
\* C1: no failure aborts the run: it never ends on an uncaught exception, every
\* requested year is processed, and the tables collected are combined and
\* written.
C1_FailuresIsolated ==
    /\ pc # "crashed"
    /\ pc = "done" => entered = years /\ (all_dfs # <<>> => file_written)

\* C2: the run ends without a file and with the "no data" message whenever the
\* tables collected hold no row with a valid DATA (also when tables were
\* collected but have no rows or only null DATA), and the file is written only
\* when such a row exists.
C2_NoDataNoFile ==
    pc = "done" =>
        LET valid == DatesOf(all_dfs) \ {NA} # {}
        IN  /\ file_written <=> valid
            /\ ~valid => <<"no_data", 0>> \in log

\* C5: a target-station member that no reading parses is skipped alone: the
\* tables collected so far are kept and the next member of the same archive is
\* processed.
C5_MemberSkippedAlone ==
    [][ ( /\ pc = "members"
          /\ members # <<>>
          /\ is_target_station(Head(members).filename)
          /\ \A r \in Readings : ~Head(members).bytes[r].ok )
        => ( /\ pc' = "members"
             /\ members' = Tail(members)
             /\ out_dfs' = out_dfs ) ]_vars

(***************************************************************************)
(* Properties of the processing of one year (SpecYear).                    *)
(***************************************************************************)
\* What the anchors used say, read off their texts and hrefs.
YearOfText(t) == IF t = T_Auto2019 THEN 2019 ELSE IF t = T_auto2020 THEN 2020 ELSE 0

ResolvedHref(h) == IF h \in {U_Abs, Z_Abs} THEN h ELSE PORTAL \o h

LastOf(S) == CHOOSE i \in S : \A j \in S : j <= i

ThisYear == entered[Len(entered)]

\* The year has no entry: the call ends at once with no table.
NoEntryEndsCall ==
    /\ pc \in {"main", "done"} /\ entered # <<>> /\ ThisYear \notin DOMAIN year_links
          => gets = <<BASE_URL>> /\ out_dfs = <<>> /\ all_dfs = <<>>
    /\ Len(gets) >= 2 => ThisYear \in DOMAIN year_links

YearLinksAre(matching(_)) ==
    pc = "lookup" =>
        /\ DOMAIN year_links \subseteq RequestedYears
        /\ \A y \in RequestedYears :
              IF matching(y) = {}
              THEN y \notin DOMAIN year_links
              ELSE /\ y \in DOMAIN year_links
                   /\ year_links[y] = ResolvedHref(res[LastOf(matching(y))].href)

MatchingText(y) == { i \in DOMAIN res : YearOfText(res[i].text) = y }
MatchingLink(y) == { i \in DOMAIN res : YearOfText(res[i].text) = y /\ res[i].href # <<>> }

ZipHrefs(h) ==
    IF h \in {Z_RelA, Z_RelUpper} THEN <<PORTAL \o h>> ELSE IF h = Z_Abs THEN <<h>> ELSE <<>>

RECURSIVE ZipLinksOn(_)
ZipLinksOn(page) == IF page = <<>> THEN <<>> ELSE ZipHrefs(Head(page).href) \o ZipLinksOn(Tail(page))

\* The archive loop of the current call was reached.
InArchiveLoop ==
    \/ pc \in {"zips", "members"}
    \/ pc \in {"main", "done"} /\ Len(gets) >= 2 /\ <<"parse_error", ThisYear>> \notin log

Retrieved == SubSeq(gets, 3, Len(gets))

\* C10: the candidate archives are the year URL alone when the content type is
\* not HTML, else the .zip links of the listing in document order (relative
\* ones prefixed by the portal domain); they are requested one at a time in
\* that order.
C10_Candidates ==
    InArchiveLoop =>
        /\ zip_links = IF res_y.ctype \in {CT_Html, CT_HtmlUpper}
                       THEN ZipLinksOn(res_y.body)
                       ELSE <<year_url>>
        /\ IsPrefix(Retrieved, zip_links)
        /\ Len(Retrieved) = IF pc = "zips" THEN zi - 1 ELSE IF pc = "members" THEN zi ELSE Len(zip_links)

C10_Witness ==
    /\ pc = "main"
    /\ res_y = Response(CT_HtmlUpper, << Anchor(T_Sobre, Z_RelUpper), Anchor(T_Sobre, Z_Abs) >>)
    /\ zip_links = << PORTAL \o Z_RelUpper, Z_Abs >>
    /\ Retrieved = zip_links
    /\ Len(all_dfs) = 1

====
